---- MODULE Spec2Model ----
(***************************************************************************)
(* multipatch_convertor (src/multipatch_convertor.py) as a state machine.  *)
(*                                                                         *)
(* One call of the function is one behaviour: Init holds the arguments of  *)
(* the call, every action is one statement block of the function body, pc  *)
(* is the position in the body.                                            *)
(*                                                                         *)
(* Numbers.  Z coordinates and heights are fixed-point numbers with four   *)
(* decimals (the value v stands for v / Unit), which makes the factor      *)
(* 0.3048 of line 108 exact; Python computes in binary floating point, so  *)
(* the model is exact where Python is exact up to rounding.                *)
(*                                                                         *)
(* Objects.  Python dicts are objects with identity: heap is the sequence  *)
(* of all dicts allocated so far and a reference is an index into heap.    *)
(* A dict is a function from its keys (strings) to values.                 *)
(*                                                                         *)
(* Library.  GeoDataFrame construction, to_crs and to_file belong to       *)
(* geopandas.  A frame is modelled by its rows and its CRS label; the      *)
(* numeric reprojection of the coordinates is not modelled.  The library   *)
(* may refuse a frame (no geometry column, no source CRS, ...): ToCrs has  *)
(* a failing outcome, raised = "libraryError".                             *)
(***************************************************************************)
EXTENDS Integers, Sequences, FiniteSets, TLC

\* ---------------------------------------------------------------- bounds
\* Largest number of features of the input collection.
MaxFeatures == 2
\* Largest total number of multipatch polygons of the input collection.
MaxRings == 3
\* Largest total number of polygons in the calls that vary the output options.
MaxRingsIO == 1

\* ---------------------------------------------------------- number model
\* Fixed point: four decimals, as many as 0.3048 has.
Unit == 10 * 1000
\* 0.3048 in fixed point (line 108).
FeetFactor == 3048
\* Sentinel seeds of the running minimum (lines 55 and 57), in whole units.
SentinelM == 9000
SentinelFt == 30000

Min2(a, b) == IF a <= b THEN a ELSE b

\* max(z_coords) of a non-empty list (line 91).
RECURSIVE ListMax(_)
ListMax(zs) ==
    IF Len(zs) = 1 THEN zs[1]
    ELSE LET m == ListMax(Tail(zs)) IN IF zs[1] >= m THEN zs[1] ELSE m

\* h * 0.3048 (line 108), split so that no intermediate product overflows.
TimesFeetFactor(h) ==
    (h \div Unit) * FeetFactor + ((h % Unit) * FeetFactor) \div Unit

\* ------------------------------------------------------------ dict model
DictSet(d, k, v) == [x \in (DOMAIN d) \cup {k} |-> IF x = k THEN v ELSE d[x]]

\* d.copy(): a new object holding the same items.  <<heap, reference>>.
DictCopyAlias(h, ref) == <<h, ref>>

DictCopy(h, ref) == <<Append(h, h[ref]), Len(h) + 1>>

\* shapely Polygon(xy_coords) (line 95).
Polygon(xy) == [type |-> "Polygon", xy |-> xy]

\* ----------------------------------------------------------- input space
\* Footprints: (x, y) vertex sequences, first vertex repeated at the end.
FootA == << <<0, 0>>, <<2, 0>>, <<0, 2>>, <<0, 0>> >>
FootB == << <<5, 5>>, <<7, 5>>, <<7, 7>>, <<5, 7>>, <<5, 5>> >>
FootShort == << <<0, 0>>, <<2, 0>>, <<0, 0>> >>

\* A ring of (x, y, z) points over a footprint.
RingOf(xy, zs) == [i \in DOMAIN xy |-> <<xy[i][1], xy[i][2], zs[i]>>]

FlatRing(xy, z) == RingOf(xy, [i \in DOMAIN xy |-> z * Unit])

\* One multipatch polygon is a list of rings, the exterior ring first.
PolyLow == << FlatRing(FootA, 5) >>
PolyTop == << FlatRing(FootA, 30500) >>
PolyB == << FlatRing(FootB, 10) >>
PolyWall == << RingOf(FootA, <<0, 0, 10 * Unit, 0>>) >>
PolyShort == << FlatRing(FootShort, 0) >>

PolySet == {PolyLow, PolyTop, PolyB, PolyWall, PolyShort}

\* Property mappings.  Every row of a GeoDataFrame has the same columns, so
\* a collection has one schema: a plain one, or one that already has the
\* keys the converter assigns.  Row i holds its own values.
SchemaSet == {"plain", "clash"}

PropsOf(schema, i) ==
    IF schema = "plain"
    THEN [bin |-> 100 + i]
    ELSE [bin |-> 100 + i, height |-> (90 + i) * Unit, geometry |-> Polygon(FootShort)]

PolySeqs(n) == [1..n -> PolySet]

\* Rows of a GeoDataFrame: n features of at least one polygon each, holding
\* at most r polygons in all.
RECURSIVE Collections(_, _, _)
Collections(schema, n, r) ==
    IF n = 0 THEN {<<>>}
    ELSE UNION {
           { Append(c, [properties |-> PropsOf(schema, n), coordinates |-> g]) :
               c \in Collections(schema, n - 1, r - a), g \in PolySeqs(a) }
           : a \in 1..r }

CollectionsUpTo(r) ==
    UNION { Collections(schema, n, r) : schema \in SchemaSet, n \in 0..MaxFeatures }

CrsSet == {"EPSG:2263", "EPSG:4326"}
UnitSet == {"m", "ft", "yd"}
FormatSet == {"geojson", "shp", "kml"}
FilenameSet == {"output", "nyc"}

\* ------------------------------------------------------------------ state
VARIABLES
    geodataframe,          \* argument: [crs, rows]
    z_unit_in, relative_h, save, path, filename, out_format,   \* arguments
    pc,                    \* position in the function body
    crs,                   \* line 40
    gdf_gj,                \* line 43: features, properties held by reference
    heap,                  \* all dict objects
    feature_list,          \* line 46 / 116: references
    fi,                    \* index of the feature the outer loop is at
    properties,            \* line 51: reference
    min_h,                 \* lines 55, 57, 74
    building_parts,        \* line 65: entries <<key, z list>> in insertion order
    splitted_feature_list, \* line 82: references
    new_gdf_gj,            \* line 119: <<>> or <<frame>>
    raised,                \* "none" or the exception that ended the call
    returned,              \* <<>> (nothing / None) or <<frame>>
    files                  \* files written

args == <<geodataframe, z_unit_in, relative_h, save, path, filename, out_format>>
locals == <<crs, gdf_gj, heap, feature_list, fi, properties, min_h,
            building_parts, splitted_feature_list, new_gdf_gj>>
outcome == <<raised, returned, files>>
vars == <<args, pc, locals, outcome>>

\* The call: its arguments, nothing executed yet.  The calls that vary the
\* geometry leave the output options at their defaults; the calls that vary
\* the output options (and take an invalid unit) hold at most MaxRingsIO
\* polygons.
Init ==
    /\ \/ /\ geodataframe \in [crs : {"EPSG:2263"}, rows : CollectionsUpTo(MaxRings)]
          /\ z_unit_in \in {"m", "ft"}
          /\ save = FALSE
          /\ path = "./"
          /\ filename = "output"
          /\ out_format = "geojson"
       \/ /\ geodataframe \in [crs : CrsSet, rows : CollectionsUpTo(MaxRingsIO)]
          /\ z_unit_in \in UnitSet
          /\ save \in BOOLEAN
          /\ path = "./"
          /\ filename \in FilenameSet
          /\ out_format \in FormatSet
    /\ relative_h \in BOOLEAN
    /\ pc = "load"
    /\ crs = "unset"
    /\ gdf_gj = <<>>
    /\ heap = <<>>
    /\ feature_list = <<>>
    /\ fi = 0
    /\ properties = 0
    /\ min_h = 0
    /\ building_parts = <<>>
    /\ splitted_feature_list = <<>>
    /\ new_gdf_gj = <<>>
    /\ raised = "none"
    /\ returned = <<>>
    /\ files = {}

\* ------------------------------------------------------- lines 40 - 46
\* json.loads(geodataframe.to_json()): every row becomes a feature whose
\* properties are a freshly built dict; feature i gets reference i.
Load ==
    /\ pc = "load"
    /\ crs' = geodataframe.crs
    /\ heap' = [i \in DOMAIN geodataframe.rows |-> geodataframe.rows[i].properties]
    /\ gdf_gj' = [i \in DOMAIN geodataframe.rows |->
                    [properties |-> i,
                     geometry |-> [coordinates |-> geodataframe.rows[i].coordinates]]]
    /\ feature_list' = <<>>
    /\ pc' = "loop"
    /\ UNCHANGED <<args, fi, properties, min_h, building_parts,
                   splitted_feature_list, new_gdf_gj, outcome>>

\* ------------------------------------------------------- lines 49 - 65
\* Lines 54 - 57: the seed of the running minimum.
SeedMin(unit) == IF unit = "m" THEN SentinelM * Unit ELSE SentinelFt * Unit

\* Head of the loop over the features: the next feature's properties, the
\* sentinel seed of its minimum and an empty dictionary; or the loop's end.
NextFeature ==
    /\ pc = "loop"
    /\ IF fi < Len(gdf_gj)
       THEN /\ fi' = fi + 1
            /\ properties' = gdf_gj[fi + 1].properties
            /\ min_h' = SeedMin(z_unit_in)
            /\ building_parts' = <<>>
            /\ pc' = "scan"
       ELSE /\ pc' = "frame"
            /\ UNCHANGED <<fi, properties, min_h, building_parts>>
    /\ UNCHANGED <<args, crs, gdf_gj, heap, feature_list,
                   splitted_feature_list, new_gdf_gj, outcome>>

\* ------------------------------------------------------- lines 71 - 79
\* Line 72: more than 3 points and a single distinct Z.
QualifiesLoose(multipatch_polygon) ==
    /\ Len(multipatch_polygon[1]) > 2
    /\ Cardinality({ multipatch_polygon[1][i][3] : i \in DOMAIN multipatch_polygon[1] }) = 1

Qualifies(multipatch_polygon) ==
    /\ Len(multipatch_polygon[1]) > 3
    /\ Cardinality({ multipatch_polygon[1][i][3] : i \in DOMAIN multipatch_polygon[1] }) = 1

\* Line 75: the ring without its Z.
XYCoordinates(ring) == [i \in DOMAIN ring |-> <<ring[i][1], ring[i][2]>>]

\* Lines 76 - 79: append to the key's list, or start it.
PartsAdd(parts, key, z) ==
    IF \E i \in DOMAIN parts : parts[i].key = key
    THEN [i \in DOMAIN parts |->
            IF parts[i].key = key
            THEN [key |-> key, zs |-> Append(parts[i].zs, z)]
            ELSE parts[i]]
    ELSE Append(parts, [key |-> key, zs |-> <<z>>])

\* The loop of line 71 from polygon i on.
RECURSIVE ScanFrom(_, _, _, _)
ScanFrom(coordinates, i, m, parts) ==
    IF i > Len(coordinates) THEN [min_h |-> m, building_parts |-> parts]
    ELSE IF Qualifies(coordinates[i])
         THEN LET z_coordinate == coordinates[i][1][1][3]
                  xy_coordinates == XYCoordinates(coordinates[i][1])
              IN ScanFrom(coordinates, i + 1, Min2(m, z_coordinate),
                          PartsAdd(parts, xy_coordinates, z_coordinate))
         ELSE ScanFrom(coordinates, i + 1, m, parts)

ScanPolygons ==
    /\ pc = "scan"
    /\ LET r == ScanFrom(gdf_gj[fi].geometry.coordinates, 1, min_h, building_parts)
       IN /\ min_h' = r.min_h
          /\ building_parts' = r.building_parts
    /\ pc' = "parts"
    /\ UNCHANGED <<args, crs, gdf_gj, heap, feature_list, fi, properties,
                   splitted_feature_list, new_gdf_gj, outcome>>

\* ------------------------------------------------------- lines 82 - 98
\* Line 91.
PartHeightFirst(z_coords) == z_coords[1]

PartHeight(z_coords) == ListMax(z_coords)

\* The loop of line 85 from entry i on: one new dict per entry.
RECURSIVE PartsFrom(_, _, _, _, _)
PartsFrom(parts, i, props, h, out) ==
    IF i > Len(parts) THEN [heap |-> h, splitted_feature_list |-> out]
    ELSE LET c == DictCopy(h, props)
             new_feature == c[2]
             h1 == [c[1] EXCEPT ![new_feature] =
                        DictSet(@, "height", PartHeight(parts[i].zs))]
             h2 == [h1 EXCEPT ![new_feature] =
                        DictSet(@, "geometry", Polygon(parts[i].key))]
         IN PartsFrom(parts, i + 1, props, h2, Append(out, new_feature))

BuildParts ==
    /\ pc = "parts"
    /\ LET r == PartsFrom(building_parts, 1, properties, heap, <<>>)
       IN /\ heap' = r.heap
          /\ splitted_feature_list' = r.splitted_feature_list
    /\ pc' = "adjust"
    /\ UNCHANGED <<args, crs, gdf_gj, feature_list, fi, properties, min_h,
                   building_parts, new_gdf_gj, outcome>>

\* ------------------------------------------------------ lines 101 - 103
RECURSIVE SubtractFrom(_, _, _, _)
SubtractFrom(h, list, i, m) ==
    IF i > Len(list) THEN h
    ELSE SubtractFrom([h EXCEPT ![list[i]] = DictSet(@, "height", @["height"] - m)],
                      list, i + 1, m)

AdjustRelative ==
    /\ pc = "adjust"
    /\ heap' = IF relative_h
               THEN SubtractFrom(heap, splitted_feature_list, 1, min_h)
               ELSE heap
    /\ pc' = "convert"
    /\ UNCHANGED <<args, crs, gdf_gj, feature_list, fi, properties, min_h,
                   building_parts, splitted_feature_list, new_gdf_gj, outcome>>

\* ------------------------------------------------------ lines 106 - 113
RECURSIVE ScaleFrom(_, _, _)
ScaleFrom(h, list, i) ==
    IF i > Len(list) THEN h
    ELSE ScaleFrom([h EXCEPT ![list[i]] =
                        DictSet(@, "height", TimesFeetFactor(@["height"]))],
                   list, i + 1)

ConvertLenient(h, list, unit) ==
    IF unit = "ft" THEN [raised |-> "none", heap |-> ScaleFrom(h, list, 1)]
    ELSE [raised |-> "none", heap |-> h]

Convert(h, list, unit) ==
    IF unit = "ft" THEN [raised |-> "none", heap |-> ScaleFrom(h, list, 1)]
    ELSE IF unit = "m" THEN [raised |-> "none", heap |-> h]
    ELSE [raised |-> "wrongUnits", heap |-> h]

ConvertUnits ==
    /\ pc = "convert"
    /\ LET r == Convert(heap, splitted_feature_list, z_unit_in)
       IN /\ heap' = r.heap
          /\ raised' = r.raised
          /\ pc' = IF r.raised = "none" THEN "extend" ELSE "done"
    /\ UNCHANGED <<args, crs, gdf_gj, feature_list, fi, properties, min_h,
                   building_parts, splitted_feature_list, new_gdf_gj,
                   returned, files>>

\* ------------------------------------------------------------- line 116
Extend ==
    /\ pc = "extend"
    /\ feature_list' = feature_list \o splitted_feature_list
    /\ pc' = "loop"
    /\ UNCHANGED <<args, crs, gdf_gj, heap, fi, properties, min_h,
                   building_parts, splitted_feature_list, new_gdf_gj, outcome>>

\* ------------------------------------------------------ lines 119 - 122
\* The frame takes the rows' items by value.
MakeFrame ==
    /\ pc = "frame"
    /\ new_gdf_gj' = << [rows |-> [i \in DOMAIN feature_list |-> heap[feature_list[i]]],
                         crs |-> crs] >>
    /\ pc' = "to_crs"
    /\ UNCHANGED <<args, crs, gdf_gj, heap, feature_list, fi, properties, min_h,
                   building_parts, splitted_feature_list, outcome>>

\* ------------------------------------------------------------- line 125
ToCrsKeep(frame) == frame

ToCrsInplace(frame) == [frame EXCEPT !.crs = "EPSG:4326"]

ToCrs ==
    /\ pc = "to_crs"
    /\ \E ok \in BOOLEAN :
          IF ok
          THEN /\ new_gdf_gj' = << ToCrsInplace(new_gdf_gj[1]) >>
               /\ pc' = "save"
               /\ UNCHANGED raised
          ELSE /\ raised' = "libraryError"
               /\ pc' = "done"
               /\ UNCHANGED new_gdf_gj
    /\ UNCHANGED <<args, crs, gdf_gj, heap, feature_list, fi, properties, min_h,
                   building_parts, splitted_feature_list, returned, files>>

\* ------------------------------------------------------ lines 128 - 139
File(name, driver, frame) == [name |-> name, driver |-> driver, content |-> frame]

SaveOrReturnAnyFormat(frame, sv, fmt, p, f) ==
    IF sv
    THEN IF fmt = "geojson"
         THEN [raised |-> "none", returned |-> <<>>,
               files |-> {File(p \o f \o ".geojson", "GeoJSON", frame)}]
         ELSE [raised |-> "none", returned |-> <<>>,
               files |-> {File(p \o f \o ".shp", "ESRI Shapefile", frame)}]
    ELSE [raised |-> "none", returned |-> <<frame>>, files |-> {}]

SaveOrReturnBoth(frame, sv, fmt, p, f) ==
    IF sv
    THEN IF fmt = "geojson"
         THEN [raised |-> "none", returned |-> <<frame>>,
               files |-> {File(p \o f \o ".geojson", "GeoJSON", frame)}]
         ELSE IF fmt = "shp"
         THEN [raised |-> "none", returned |-> <<frame>>,
               files |-> {File(p \o f \o ".shp", "ESRI Shapefile", frame)}]
         ELSE [raised |-> "wrongFormat", returned |-> <<>>, files |-> {}]
    ELSE [raised |-> "none", returned |-> <<frame>>, files |-> {}]

SaveOrReturn(frame, sv, fmt, p, f) ==
    IF sv
    THEN IF fmt = "geojson"
         THEN [raised |-> "none", returned |-> <<>>,
               files |-> {File(p \o f \o ".geojson", "GeoJSON", frame)}]
         ELSE IF fmt = "shp"
         THEN [raised |-> "none", returned |-> <<>>,
               files |-> {File(p \o f \o ".shp", "ESRI Shapefile", frame)}]
         ELSE [raised |-> "wrongFormat", returned |-> <<>>, files |-> {}]
    ELSE [raised |-> "none", returned |-> <<frame>>, files |-> {}]

Finish ==
    /\ pc = "save"
    /\ LET r == SaveOrReturn(new_gdf_gj[1], save, out_format, path, filename)
       IN /\ raised' = r.raised
          /\ returned' = r.returned
          /\ files' = files \cup r.files
    /\ pc' = "done"
    /\ UNCHANGED <<args, locals>>

Next ==
    \/ Load
    \/ NextFeature
    \/ ScanPolygons
    \/ BuildParts
    \/ AdjustRelative
    \/ ConvertUnits
    \/ Extend
    \/ MakeFrame
    \/ ToCrs
    \/ Finish

Spec == Init /\ [][Next]_vars

\* ====================================================================
\* What the claims speak of, stated on the input alone.
\* ====================================================================
SetMax(S) == CHOOSE m \in S : \A n \in S : n <= m

SetMin(S) == CHOOSE m \in S : \A n \in S : m <= n

InputRows == geodataframe.rows

\* A horizontal face: at least 4 points, all at one Z.
Horizontal(ring) ==
    /\ Len(ring) >= 4
    /\ \A i, j \in DOMAIN ring : ring[i][3] = ring[j][3]

Footprint(ring) == [i \in DOMAIN ring |-> <<ring[i][1], ring[i][2]>>]

\* The horizontal faces of feature i (positions in its polygon list).
Faces(i) ==
    { k \in DOMAIN InputRows[i].coordinates : Horizontal(InputRows[i].coordinates[k][1]) }

FaceZ(i, k) == InputRows[i].coordinates[k][1][1][3]

FaceXY(i, k) == Footprint(InputRows[i].coordinates[k][1])

Footprints(i) == { FaceXY(i, k) : k \in Faces(i) }

Group(i, xy) == { k \in Faces(i) : FaceXY(i, k) = xy }

TopZ(i, xy) == SetMax({ FaceZ(i, k) : k \in Group(i, xy) })

BottomZ(i) == SetMin({ FaceZ(i, k) : k \in Faces(i) })

\* Number of output features owed to the features before feature i.
RECURSIVE Offset(_)
Offset(i) == IF i <= 1 THEN 0 ELSE Offset(i - 1) + Cardinality(Footprints(i - 1))

\* Positions of the output features owed to feature i.
Segment(i) == (Offset(i) + 1) .. Offset(i + 1)

\* The converted collection exists from MakeFrame on.
HasResult == new_gdf_gj # <<>>

ResultRows == new_gdf_gj[1].rows

ValidUnit == z_unit_in \in {"m", "ft"}

ValidFormat == out_format \in {"geojson", "shp"}

\* (x, y) geometry and height of every row.
View(rows) == [k \in DOMAIN rows |-> [xy |-> rows[k].geometry.xy, height |-> rows[k].height]]

\* --------------------------------------------------------------------
\* C1: with z_unit_in = 'm' and relative_h = False the result holds, for
\* every input feature in turn, exactly one row per distinct (x, y) sequence
\* of that feature's horizontal faces, and the row's height is the largest Z
\* among the faces of that feature with that (x, y) sequence.
C1_OnePerFootprintMaxZ ==
    (HasResult /\ z_unit_in = "m" /\ ~relative_h) =>
        /\ Len(ResultRows) = Offset(Len(InputRows) + 1)
        /\ \A i \in DOMAIN InputRows :
              /\ { ResultRows[k].geometry.xy : k \in Segment(i) } = Footprints(i)
              /\ \A k \in Segment(i) :
                    /\ ResultRows[k].geometry = Polygon(ResultRows[k].geometry.xy)
                    /\ ResultRows[k].height = TopZ(i, ResultRows[k].geometry.xy)

\* A group of three faces whose first Z is not the largest.
C1_Witness ==
    /\ HasResult /\ z_unit_in = "m" /\ ~relative_h
    /\ \E i \in DOMAIN InputRows : \E xy \in Footprints(i) :
          /\ Cardinality(Group(i, xy)) >= 3
          /\ \E k \in Group(i, xy) : FaceZ(i, k) < TopZ(i, xy) /\ k = 1

\* --------------------------------------------------------------------
\* C2: the result of a call equals the result the conversion gives on the
\* input with every polygon removed whose ring has fewer than 4 points or
\* more than one Z, for both units and both settings of relative_h.
KeepFace(multipatch_polygon) == Horizontal(multipatch_polygon[1])

OnlyFaces(rows) ==
    [i \in DOMAIN rows |-> [properties |-> rows[i].properties,
                            coordinates |-> SelectSeq(rows[i].coordinates, KeepFace)]]

\* The conversion of one feature's polygon list, as a function.
ConvertedFeature(coordinates, unit, rel) ==
    LET r == ScanFrom(coordinates, 1, SeedMin(unit), <<>>)
    IN [k \in DOMAIN r.building_parts |->
          LET top == PartHeight(r.building_parts[k].zs)
              h == IF rel THEN top - r.min_h ELSE top
          IN [xy |-> r.building_parts[k].key,
              height |-> IF unit = "ft" THEN TimesFeetFactor(h) ELSE h]]

RECURSIVE ConvertedUpTo(_, _, _, _)
ConvertedUpTo(rows, n, unit, rel) ==
    IF n = 0 THEN <<>>
    ELSE ConvertedUpTo(rows, n - 1, unit, rel)
           \o ConvertedFeature(rows[n].coordinates, unit, rel)

C2_DroppedRingsHaveNoEffect ==
    HasResult =>
        View(ResultRows) =
            ConvertedUpTo(OnlyFaces(InputRows), Len(InputRows), z_unit_in, relative_h)

\* A feature with a short ring and a face, in relative mode: the short ring
\* lies below every face.
C2_Witness ==
    /\ HasResult /\ relative_h /\ Len(ResultRows) > 0
    /\ \E i \in DOMAIN InputRows :
          /\ Faces(i) # {}
          /\ \E k \in DOMAIN InputRows[i].coordinates :
                InputRows[i].coordinates[k] \in {PolyShort, PolyWall}

\* --------------------------------------------------------------------
\* C3: with relative_h = True and z_unit_in = 'm' every row's height is the
\* largest Z of its group minus the smallest Z over the horizontal faces of
\* its own source feature, whatever the Z values are.
C3_RelativeToTrueMinimum ==
    (HasResult /\ z_unit_in = "m" /\ relative_h) =>
        \A i \in DOMAIN InputRows : \A k \in Segment(i) :
            ResultRows[k].height = TopZ(i, ResultRows[k].geometry.xy) - BottomZ(i)

\* --------------------------------------------------------------------
\* C4: with z_unit_in = 'ft' every row's height is 0.3048 times (largest Z of
\* the group minus the feature's smallest Z) in relative mode and 0.3048
\* times the largest Z otherwise; with 'm' the height is not multiplied.
C4_FeetAfterRelative ==
    HasResult =>
        \A i \in DOMAIN InputRows : \A k \in Segment(i) :
            LET top == TopZ(i, ResultRows[k].geometry.xy)
                feet == IF relative_h THEN top - BottomZ(i) ELSE top
            IN /\ z_unit_in = "ft" => ResultRows[k].height = (feet \div Unit) * FeetFactor
               /\ (z_unit_in = "m" /\ ~relative_h) => ResultRows[k].height = top

\* --------------------------------------------------------------------
\* C5: a call whose z_unit_in is neither 'm' nor 'ft' ends with the
\* invalid-units error, whatever the collection (a failure inside the
\* library set aside).
C5_InvalidUnitAlwaysRaises ==
    (pc = "done" /\ ~ValidUnit /\ raised # "libraryError") => raised = "wrongUnits"

\* --------------------------------------------------------------------
\* C6, as claimed: a call with a valid unit whose out_format is neither
\* 'geojson' nor 'shp' ends with the invalid-format error for every value of
\* save; stated for the non-empty collections, a failure inside the library
\* set aside.
C6_InvalidFormatAlwaysRaises ==
    (pc = "done" /\ ValidUnit /\ ~ValidFormat /\ raised # "libraryError"
        /\ Len(InputRows) > 0)
        => raised = "wrongFormat"

\* C6, amended: with save = True such a call ends with the invalid-format
\* error and writes no file; with save = False out_format is not examined
\* and the call returns the converted collection.
C6_InvalidFormatRaisesWhenSaving ==
    (pc = "done" /\ ValidUnit /\ ~ValidFormat /\ raised # "libraryError") =>
        IF save
        THEN raised = "wrongFormat" /\ files = {} /\ returned = <<>>
        ELSE raised = "none" /\ returned = new_gdf_gj /\ HasResult

C6_Witness ==
    /\ pc = "done" /\ ValidUnit /\ out_format = "kml" /\ save
    /\ raised = "wrongFormat"
    /\ Len(ResultRows) > 0

\* --------------------------------------------------------------------
\* C7: whatever is returned or written has CRS EPSG:4326, and nothing is
\* returned or written before the reprojection step has run.
C7_ResultIsGeographic ==
    /\ \A f \in files : f.content.crs = "EPSG:4326"
    /\ returned # <<>> => returned[1].crs = "EPSG:4326"
    /\ pc \notin {"save", "done"} => (files = {} /\ returned = <<>>)
    /\ pc = "save" => (new_gdf_gj[1].crs = "EPSG:4326" /\ files = {} /\ returned = <<>>)

C7_Witness ==
    /\ pc = "done"
    /\ geodataframe.crs = "EPSG:2263"
    /\ returned # <<>>
    /\ Len(returned[1].rows) > 0

\* --------------------------------------------------------------------
\* C8: a call that ends without error either returns the converted
\* collection and writes no file (save = False), or returns nothing and
\* writes exactly one file, path + filename + '.geojson' with the GeoJSON
\* driver or path + filename + '.shp' (save = True).
C8_ReturnOrWrite ==
    (pc = "done" /\ raised = "none") =>
        IF save
        THEN /\ returned = <<>>
             /\ Cardinality(files) = 1
             /\ \A f \in files :
                   /\ f.content = new_gdf_gj[1]
                   /\ out_format = "geojson" =>
                         (f.name = path \o filename \o ".geojson" /\ f.driver = "GeoJSON")
                   /\ out_format = "shp" => f.name = path \o filename \o ".shp"
                   /\ ValidFormat
        ELSE /\ returned = new_gdf_gj
             /\ HasResult
             /\ files = {}

C8_Witness ==
    /\ pc = "done" /\ raised = "none" /\ save /\ out_format = "shp"
    /\ \E f \in files : f.name = "./nyc.shp" /\ Len(f.content.rows) > 0

\* --------------------------------------------------------------------
\* Dict objects of the source features, and of the output features so far.
SourceRefs == { gdf_gj[i].properties : i \in DOMAIN gdf_gj }

OutputRefs == feature_list \o (IF pc \in {"adjust", "convert", "extend"}
                               THEN splitted_feature_list ELSE <<>>)

\* C9, as claimed: every row carries every property of its source feature
\* under the same key with the same value, whatever keys the source has.
C9_AllSourcePropertiesKept ==
    HasResult =>
        \A i \in DOMAIN InputRows : \A k \in Segment(i) :
            \A key \in DOMAIN InputRows[i].properties :
                /\ key \in DOMAIN ResultRows[k]
                /\ ResultRows[k][key] = InputRows[i].properties[key]

\* C9, amended: every row carries every source property whose key is neither
\* 'height' nor 'geometry' unchanged, and holds the computed height and
\* polygon under those two keys; the source feature's mapping is never
\* modified; no output feature shares its mapping with another output
\* feature or with a source feature.
C9_OtherPropertiesKeptNoSharing ==
    /\ HasResult =>
          \A i \in DOMAIN InputRows : \A k \in Segment(i) :
              /\ DOMAIN ResultRows[k] =
                    (DOMAIN InputRows[i].properties) \cup {"height", "geometry"}
              /\ \A key \in (DOMAIN InputRows[i].properties) \ {"height", "geometry"} :
                    ResultRows[k][key] = InputRows[i].properties[key]
              /\ ResultRows[k].geometry.xy \in Footprints(i)
    /\ \A i \in DOMAIN gdf_gj : heap[gdf_gj[i].properties] = InputRows[i].properties
    /\ \A k \in DOMAIN OutputRefs :
          /\ OutputRefs[k] \notin SourceRefs
          /\ \A l \in DOMAIN OutputRefs : OutputRefs[k] = OutputRefs[l] => k = l

\* Two rows of one feature whose schema has the assigned keys, heights
\* rewritten in place by the relative adjustment.
C9_Witness ==
    /\ HasResult /\ relative_h
    /\ \E i \in DOMAIN InputRows :
          /\ "height" \in DOMAIN InputRows[i].properties
          /\ Cardinality(Footprints(i)) >= 2

\* --------------------------------------------------------------------
\* C10: a call that ends with the invalid-units or the invalid-format error
\* has written no file and returned nothing; on a non-empty collection an
\* invalid unit ends the call with the units error before the frame is
\* built, whatever save and out_format are.
C10_ErrorsLeaveNothing ==
    /\ raised \in {"wrongUnits", "wrongFormat"} => (files = {} /\ returned = <<>>)
    /\ (pc = "done" /\ ~ValidUnit /\ Len(InputRows) > 0) =>
          (raised = "wrongUnits" /\ ~HasResult)

C10_Witness ==
    /\ pc = "done" /\ raised = "wrongUnits"
    /\ save /\ out_format = "kml" /\ Len(InputRows) > 0

====
